---- MODULE Spec2Model ----
\* A model of chess.py: the two-click selection state machine of main(), the
\* pixel / cell / square coordinate translation, the always-queen promotion
\* policy, the per-frame status text and the game loop around them.
\* The rules engine (python-chess) is modelled by what its calls return for the
\* positions explored: piece placement, side to move, castling rights and the
\* en-passant square decide legality, check, checkmate and stalemate.
EXTENDS Integers, Sequences, FiniteSets, TLC

\* ---------------------------------------------------------------------------
\* 1. Configuration constants (chess.py lines 6-9)
\* ---------------------------------------------------------------------------
SQUARE_SIZE == 80
BOARD_SIZE == SQUARE_SIZE * 8
SCREEN_WIDTH == BOARD_SIZE + 200
SCREEN_HEIGHT == BOARD_SIZE

\* Python's None, for the optional tuples (a selection, a piece).
None == <<>>

\* ---------------------------------------------------------------------------
\* 2. The rules engine's vocabulary (python-chess, as used by chess.py)
\* ---------------------------------------------------------------------------
WHITE == TRUE
BLACK == FALSE
PAWN == 1
KNIGHT == 2
BISHOP == 3
ROOK == 4
QUEEN == 5
KING == 6
\* Move.promotion is None for a move that promotes nothing.
NoPromotion == 0
\* Board.ep_square is None when the last move was no double pawn push.
NoSquare == 0 - 1

Squares == 0 .. 63
FILE_NAMES == <<"a", "b", "c", "d", "e", "f", "g", "h">>
RANK_NAMES == <<"1", "2", "3", "4", "5", "6", "7", "8">>
\* PIECE_SYMBOLS[1..6]; python's list has None at index 0.
PIECE_SYMBOLS == <<"p", "n", "b", "r", "q", "k">>
UPPER_SYMBOLS == <<"P", "N", "B", "R", "Q", "K">>

\* chess.square(file_index, rank_index)
square(file, rank) == rank * 8 + file
square_file(sq) == sq % 8
square_rank(sq) == sq \div 8

\* chess.square_name(sq): the two characters of SQUARE_NAMES[sq].
square_name(sq) == <<FILE_NAMES[square_file(sq) + 1], RANK_NAMES[square_rank(sq) + 1]>>

\* SQUARE_NAMES: the 64 names, a1 first, h8 last.
SQUARE_NAMES == [sq \in Squares |-> square_name(sq)]

\* Each name's place in SQUARE_NAMES.
SquareNamePlaces == [name \in { SQUARE_NAMES[sq] : sq \in Squares } |-> CHOOSE sq \in Squares : SQUARE_NAMES[sq] = name]

\* SQUARE_NAMES.index(name); raises ValueError (here NoSquare) for no such name.
SquareNamesIndex(name) == IF name \in DOMAIN SquareNamePlaces THEN SquareNamePlaces[name] ELSE NoSquare

\* chess.parse_square(name)
parse_square(name) == SquareNamesIndex(name)

\* A piece is <<piece_type, color>>; an empty square holds None.
Piece(t, c) == <<t, c>>
piece_type(p) == p[1]
piece_color(p) == p[2]

\* Piece.symbol(): upper case for White, lower case for Black.
symbol(p) == IF piece_color(p) = WHITE THEN UPPER_SYMBOLS[piece_type(p)] ELSE PIECE_SYMBOLS[piece_type(p)]

A1 == square(0, 0)
C1 == square(2, 0)
D1 == square(3, 0)
E1 == square(4, 0)
F1 == square(5, 0)
G1 == square(6, 0)
H1 == square(7, 0)
A8 == square(0, 7)
C8 == square(2, 7)
D8 == square(3, 7)
E8 == square(4, 7)
F8 == square(5, 7)
G8 == square(6, 7)
H8 == square(7, 7)

\* --- attack tables -----------------------------------------------------------
OnBoard(f, r) == f \in 0 .. 7 /\ r \in 0 .. 7

Leaps(sq, deltas) ==
    { square(square_file(sq) + d[1], square_rank(sq) + d[2]) :
        d \in { e \in deltas : OnBoard(square_file(sq) + e[1], square_rank(sq) + e[2]) } }

KnightDeltas == { <<1, 2>>, <<2, 1>>, <<2, -1>>, <<1, -2>>, <<-1, -2>>, <<-2, -1>>, <<-2, 1>>, <<-1, 2>> }
KingDeltas == { <<1, 0>>, <<1, 1>>, <<0, 1>>, <<-1, 1>>, <<-1, 0>>, <<-1, -1>>, <<0, -1>>, <<1, -1>> }
RookDeltas == { <<1, 0>>, <<0, 1>>, <<-1, 0>>, <<0, -1>> }
BishopDeltas == { <<1, 1>>, <<-1, 1>>, <<-1, -1>>, <<1, -1>> }

BB_KNIGHT_ATTACKS == [sq \in Squares |-> Leaps(sq, KnightDeltas)]
BB_KING_ATTACKS == [sq \in Squares |-> Leaps(sq, KingDeltas)]
\* BB_PAWN_ATTACKS[color][sq]: the squares a pawn of that colour on sq attacks.
BB_PAWN_ATTACKS ==
    [c \in BOOLEAN |-> [sq \in Squares |->
        Leaps(sq, IF c = WHITE THEN { <<-1, 1>>, <<1, 1>> } ELSE { <<-1, -1>>, <<1, -1>> })]]

\* The squares from sq towards delta d, nearest first, up to the board's edge.
StepsToEdge(x, dx) == IF dx = 1 THEN 7 - x ELSE IF dx = -1 THEN x ELSE 7
MinOf(a, b) == IF a < b THEN a ELSE b
RayLength(sq, d) == MinOf(StepsToEdge(square_file(sq), d[1]), StepsToEdge(square_rank(sq), d[2]))
BB_RAYS ==
    [sq \in Squares |-> [d \in KingDeltas |->
        [i \in 1 .. RayLength(sq, d) |-> square(square_file(sq) + i * d[1], square_rank(sq) + i * d[2])]]]

\* The squares a slider on sq reaches along one ray: up to and including the
\* first occupied square.
RayAttacks(pieces, ray) ==
    { ray[i] : i \in { j \in 1 .. Len(ray) : \A k \in 1 .. (j - 1) : pieces[ray[k]] = None } }

SliderAttacks(pieces, sq, deltas) == UNION { RayAttacks(pieces, BB_RAYS[sq][d]) : d \in deltas }

\* Board.attacks_mask(sq): the squares attacked by the piece on sq.
attacks_mask(pieces, sq) ==
    LET p == pieces[sq] IN
    IF p = None THEN {}
    ELSE IF piece_type(p) = PAWN THEN BB_PAWN_ATTACKS[piece_color(p)][sq]
    ELSE IF piece_type(p) = KNIGHT THEN BB_KNIGHT_ATTACKS[sq]
    ELSE IF piece_type(p) = KING THEN BB_KING_ATTACKS[sq]
    ELSE IF piece_type(p) = BISHOP THEN SliderAttacks(pieces, sq, BishopDeltas)
    ELSE IF piece_type(p) = ROOK THEN SliderAttacks(pieces, sq, RookDeltas)
    ELSE SliderAttacks(pieces, sq, KingDeltas)

\* Board.attackers_mask(color, sq): the squares holding a piece of that colour
\* that attacks sq.
attackers_mask(pieces, color, sq) ==
    { a \in BB_KING_ATTACKS[sq] : pieces[a] = Piece(KING, color) }
    \cup { a \in BB_KNIGHT_ATTACKS[sq] : pieces[a] = Piece(KNIGHT, color) }
    \cup { a \in BB_PAWN_ATTACKS[~color][sq] : pieces[a] = Piece(PAWN, color) }
    \cup { a \in SliderAttacks(pieces, sq, RookDeltas) : pieces[a] \in { Piece(ROOK, color), Piece(QUEEN, color) } }
    \cup { a \in SliderAttacks(pieces, sq, BishopDeltas) : pieces[a] \in { Piece(BISHOP, color), Piece(QUEEN, color) } }

\* Board.is_attacked_by(color, sq)
is_attacked_by(pieces, color, sq) == attackers_mask(pieces, color, sq) # {}

\* Board.king(color): the king's square, or NoSquare.
king(pieces, color) ==
    IF \E sq \in Squares : pieces[sq] = Piece(KING, color)
    THEN CHOOSE sq \in Squares : pieces[sq] = Piece(KING, color)
    ELSE NoSquare

\* --- moves -------------------------------------------------------------------
\* chess.Move(from_square, to_square, promotion)
Move(from, to, promo) == [from_square |-> from, to_square |-> to, promotion |-> promo]

\* Board.occupied_co[color] & BB_SQUARES[sq]
OccupiedBy(pieces, color, sq) == pieces[sq] # None /\ piece_color(pieces[sq]) = color

\* Board.clean_castling_rights(): the rook squares still entitled to castle;
\* the rook must stand on its corner and the king on e1 / e8.
clean_castling_rights(b) ==
    { r \in b.castling_rights :
        \/ r \in { A1, H1 } /\ b.pieces[r] = Piece(ROOK, WHITE) /\ b.pieces[E1] = Piece(KING, WHITE)
        \/ r \in { A8, H8 } /\ b.pieces[r] = Piece(ROOK, BLACK) /\ b.pieces[E8] = Piece(KING, BLACK) }

\* Board._from_chess960(False, from, to): king-takes-rook castling written as
\* the king's two-square move.
from_chess960(b, from, to) ==
    IF from = E1 /\ b.pieces[E1] # None /\ piece_type(b.pieces[E1]) = KING /\ to = H1 THEN Move(E1, G1, NoPromotion)
    ELSE IF from = E1 /\ b.pieces[E1] # None /\ piece_type(b.pieces[E1]) = KING /\ to = A1 THEN Move(E1, C1, NoPromotion)
    ELSE IF from = E8 /\ b.pieces[E8] # None /\ piece_type(b.pieces[E8]) = KING /\ to = H8 THEN Move(E8, G8, NoPromotion)
    ELSE IF from = E8 /\ b.pieces[E8] # None /\ piece_type(b.pieces[E8]) = KING /\ to = A8 THEN Move(E8, C8, NoPromotion)
    ELSE Move(from, to, NoPromotion)

\* Board._to_chess960(move): the king's two-square move written as king takes rook.
to_chess960(b, move) ==
    LET kingOn(sq) == b.pieces[sq] # None /\ piece_type(b.pieces[sq]) = KING
        rookOn(sq) == b.pieces[sq] # None /\ piece_type(b.pieces[sq]) = ROOK
    IN
    IF move.from_square = E1 /\ kingOn(E1) /\ move.to_square = G1 /\ ~rookOn(G1) THEN Move(E1, H1, NoPromotion)
    ELSE IF move.from_square = E1 /\ kingOn(E1) /\ move.to_square = C1 /\ ~rookOn(C1) THEN Move(E1, A1, NoPromotion)
    ELSE IF move.from_square = E8 /\ kingOn(E8) /\ move.to_square = G8 /\ ~rookOn(G8) THEN Move(E8, H8, NoPromotion)
    ELSE IF move.from_square = E8 /\ kingOn(E8) /\ move.to_square = C8 /\ ~rookOn(C8) THEN Move(E8, A8, NoPromotion)
    ELSE move

\* Board.generate_castling_moves(): the side to move's king stands on its
\* square with the right kept, the squares between king and rook are empty,
\* and the king neither stands on, crosses nor reaches an attacked square.
generate_castling_moves(b) ==
    LET ksq == IF b.turn = WHITE THEN E1 ELSE E8
        rank == IF b.turn = WHITE THEN 0 ELSE 7
        free(files) == \A f \in files : b.pieces[square(f, rank)] = None
        safe(files) == \A f \in files : ~is_attacked_by(b.pieces, ~b.turn, square(f, rank))
        rights == clean_castling_rights(b)
    IN
    { Move(ksq, square(6, rank), NoPromotion) : x \in { y \in { 1 } :
        square(7, rank) \in rights /\ free({ 5, 6 }) /\ safe({ 4, 5, 6 }) } }
    \cup
    { Move(ksq, square(2, rank), NoPromotion) : x \in { y \in { 1 } :
        square(0, rank) \in rights /\ free({ 1, 2, 3 }) /\ safe({ 4, 3, 2 }) } }

\* Board.generate_pseudo_legal_moves(from_mask, to_mask) for the pawn on
\* `from`: captures, single and double advances (promoting on the back rank
\* to each of the four pieces) and the en-passant capture.
PawnMoves(b, from) ==
    LET up == IF b.turn = WHITE THEN 8 ELSE -8
        startRank == IF b.turn = WHITE THEN 1 ELSE 6
        epRank == IF b.turn = WHITE THEN 4 ELSE 3
        one == from + up
        two == from + 2 * up
        captures == { t \in BB_PAWN_ATTACKS[b.turn][from] : OccupiedBy(b.pieces, ~b.turn, t) }
        single == IF one \in Squares /\ b.pieces[one] = None THEN { one } ELSE {}
        double == IF single # {} /\ square_rank(from) = startRank /\ b.pieces[two] = None THEN { two } ELSE {}
        promos(t) == IF square_rank(t) \in { 0, 7 } THEN { QUEEN, ROOK, BISHOP, KNIGHT } ELSE { NoPromotion }
        ep == IF /\ b.ep_square # NoSquare
                 /\ b.ep_square # 0
                 /\ b.pieces[b.ep_square] = None
                 /\ b.ep_square \in BB_PAWN_ATTACKS[b.turn][from]
                 /\ square_rank(from) = epRank
              THEN { Move(from, b.ep_square, NoPromotion) } ELSE {}
    IN
    { Move(from, t, pr) : <<t, pr>> \in UNION { { <<u, q>> : q \in promos(u) } : u \in captures \cup single } }
    \cup { Move(from, t, NoPromotion) : t \in double }
    \cup ep

\* Board.is_pseudo_legal(move)
is_pseudo_legal(b, move) ==
    LET from == move.from_square
        to == move.to_square
        p == b.pieces[from]
    IN
    /\ from # to \/ move.promotion # NoPromotion \/ from # 0
    /\ p # None
    /\ piece_color(p) = b.turn
    /\ move.promotion # NoPromotion =>
          /\ piece_type(p) = PAWN
          /\ square_rank(to) = (IF b.turn = WHITE THEN 7 ELSE 0)
    /\ \/ piece_type(p) = KING /\ from_chess960(b, from, to) \in generate_castling_moves(b)
       \/ /\ ~OccupiedBy(b.pieces, b.turn, to)
          /\ IF piece_type(p) = PAWN THEN move \in PawnMoves(b, from)
             ELSE to \in attacks_mask(b.pieces, from)

\* Board.is_castling(move)
is_castling(b, move) ==
    /\ b.pieces[move.from_square] # None
    /\ piece_type(b.pieces[move.from_square]) = KING
    /\ \/ square_file(move.from_square) - square_file(move.to_square) \in { -7, -6, -5, -4, -3, -2, 2, 3, 4, 5, 6, 7 }
       \/ b.pieces[move.to_square] = Piece(ROOK, b.turn)

\* The placement Board.push(move) leaves: the en-passant victim removed, the
\* promoted piece or the mover set on the target, king and rook set on their
\* castled squares.
PiecesAfter(b, move0) ==
    LET move == to_chess960(b, move0)
        from == move.from_square
        to == move.to_square
        p == b.pieces[from]
        diff == to - from
        isEp == /\ piece_type(p) = PAWN
                /\ ~(diff = 16 /\ square_rank(from) = 1)
                /\ ~(diff = -16 /\ square_rank(from) = 6)
                /\ to = b.ep_square
                /\ diff \in { -9, -7, 7, 9 }
                /\ b.pieces[to] = None
        down == IF b.turn = WHITE THEN -8 ELSE 8
        ptype == IF move.promotion # NoPromotion THEN move.promotion ELSE piece_type(p)
        castling == ptype = KING /\ OccupiedBy(b.pieces, b.turn, to)
        a_side == square_file(to) < square_file(from)
        rank == IF b.turn = WHITE THEN 0 ELSE 7
        lifted == [b.pieces EXCEPT ![from] = None]
        taken == IF isEp THEN [lifted EXCEPT ![b.ep_square + down] = None] ELSE lifted
    IN
    IF castling
    THEN [taken EXCEPT ![to] = None,
                       ![square(IF a_side THEN 2 ELSE 6, rank)] = Piece(KING, b.turn),
                       ![square(IF a_side THEN 3 ELSE 5, rank)] = Piece(ROOK, b.turn)]
    ELSE [taken EXCEPT ![to] = Piece(ptype, b.turn)]

\* Board.push(move): the position after the move, the other side to move.
push(b, move0) ==
    LET move == to_chess960(b, move0)
        from == move.from_square
        to == move.to_square
        p == b.pieces[from]
        diff == to - from
        rights == clean_castling_rights(b) \ { from, to }
    IN
    [ pieces |-> PiecesAfter(b, move0),
      turn |-> ~b.turn,
      castling_rights |->
          IF piece_type(p) = KING
          THEN { r \in rights : square_rank(r) # (IF b.turn = WHITE THEN 0 ELSE 7) }
          ELSE rights,
      ep_square |->
          IF piece_type(p) = PAWN /\ diff = 16 /\ square_rank(from) = 1 THEN from + 8
          ELSE IF piece_type(p) = PAWN /\ diff = -16 /\ square_rank(from) = 6 THEN from - 8
          ELSE NoSquare ]

\* Board.is_into_check(move): the move leaves the mover's king attacked.
\* A castling move was already tested square by square when generated.
is_into_check(b, move) ==
    LET after == PiecesAfter(b, move)
        k == king(after, b.turn)
    IN
    /\ king(b.pieces, b.turn) # NoSquare
    /\ ~(is_castling(b, move) /\ ~is_attacked_by(b.pieces, ~b.turn, king(b.pieces, b.turn)))
    /\ is_attacked_by(after, ~b.turn, k)

\* `move in board.legal_moves`, that is Board.is_legal(move)
is_legal(b, move) == is_pseudo_legal(b, move) /\ ~is_into_check(b, move)

\* The candidates Board.generate_legal_moves() draws from, by the mover's geometry.
CandidateMoves(b) ==
    UNION { LET p == b.pieces[from] IN
            IF piece_type(p) = PAWN THEN PawnMoves(b, from)
            ELSE IF piece_type(p) = KING
                 THEN { Move(from, t, NoPromotion) : t \in BB_KING_ATTACKS[from] } \cup generate_castling_moves(b)
            ELSE { Move(from, t, NoPromotion) : t \in attacks_mask(b.pieces, from) }
          : from \in { s \in Squares : OccupiedBy(b.pieces, b.turn, s) } }

\* Board.generate_legal_moves()
generate_legal_moves(b) == { m \in CandidateMoves(b) : is_legal(b, m) }

\* any(board.generate_legal_moves())
AnyLegalMove(b) == \E m \in CandidateMoves(b) : is_legal(b, m)

\* Board.is_check()
is_check(b) ==
    /\ king(b.pieces, b.turn) # NoSquare
    /\ is_attacked_by(b.pieces, ~b.turn, king(b.pieces, b.turn))

\* Board.is_checkmate()
is_checkmate(b) == is_check(b) /\ ~AnyLegalMove(b)

\* Board.is_stalemate()
is_stalemate(b) == ~is_check(b) /\ ~AnyLegalMove(b)

\* --- positions ---------------------------------------------------------------
\* A placement from eight rank strings, rank 8 first, as a FEN lists them
\* ("." an empty square).
SymbolPiece(ch) ==
    IF \E t \in 1 .. 6 : UPPER_SYMBOLS[t] = ch THEN Piece(CHOOSE t \in 1 .. 6 : UPPER_SYMBOLS[t] = ch, WHITE)
    ELSE IF \E t \in 1 .. 6 : PIECE_SYMBOLS[t] = ch THEN Piece(CHOOSE t \in 1 .. 6 : PIECE_SYMBOLS[t] = ch, BLACK)
    ELSE None

Placement(ranks) == [sq \in Squares |-> SymbolPiece(ranks[8 - square_rank(sq)][square_file(sq) + 1])]

Position(ranks, turn, rights, ep) ==
    [pieces |-> Placement(ranks), turn |-> turn, castling_rights |-> rights, ep_square |-> ep]

\* chess.Board(): the starting position.
StartingBoard ==
    Position(<< <<"r","n","b","q","k","b","n","r">>,
                <<"p","p","p","p","p","p","p","p">>,
                <<".",".",".",".",".",".",".",".">>,
                <<".",".",".",".",".",".",".",".">>,
                <<".",".",".",".",".",".",".",".">>,
                <<".",".",".",".",".",".",".",".">>,
                <<"P","P","P","P","P","P","P","P">>,
                <<"R","N","B","Q","K","B","N","R">> >>,
             WHITE, { A1, H1, A8, H8 }, NoSquare)

\* ---------------------------------------------------------------------------
\* 3. Coordinate translation (chess.py lines 107-117, 121-122, 73)
\* ---------------------------------------------------------------------------
\* pixel_to_cell rounding to the nearest cell boundary instead of flooring.
pixel_to_cell_rounded(pos) == <<(pos[1] + SQUARE_SIZE \div 2) \div SQUARE_SIZE, (pos[2] + SQUARE_SIZE \div 2) \div SQUARE_SIZE>>

\* col = x // SQUARE_SIZE; row = y // SQUARE_SIZE (floor division).
pixel_to_cell(pos) == <<pos[1] \div SQUARE_SIZE, pos[2] \div SQUARE_SIZE>>

\* if 0 <= col < 8 and 0 <= row < 8
InBounds(cell) == 0 <= cell[1] /\ cell[1] < 8 /\ 0 <= cell[2] /\ cell[2] < 8

\* cell_to_square_id without the vertical flip.
cell_to_square_id_unflipped(cell) == square(cell[1], cell[2])

\* chess.square(col, 7 - row), at lines 117, 122 and 73: row 0 is the top of
\* the window, rank 8.
cell_to_square_id(cell) == square(cell[1], 7 - cell[2])

\* The inverse the specification names: column = file, row = 7 - rank.
square_id_to_cell(sq) == <<square_file(sq), 7 - square_rank(sq)>>

\* ---------------------------------------------------------------------------
\* 4. Move construction (chess.py lines 124-136)
\* ---------------------------------------------------------------------------
\* chess.Move.from_uci(uci) on a list of characters: the two square names are
\* looked up in SQUARE_NAMES, a fifth character in PIECE_SYMBOLS; a text of
\* another length, an unknown name or symbol, or equal squares raise
\* ValueError. "0000" is the null move.
from_uci(uci) ==
    LET from == SquareNamesIndex(SubSeq(uci, 1, 2))
        to == SquareNamesIndex(SubSeq(uci, 3, 4))
        promo == IF Len(uci) = 5
                 THEN IF \E t \in 1 .. 6 : PIECE_SYMBOLS[t] = uci[5]
                      THEN CHOOSE t \in 1 .. 6 : PIECE_SYMBOLS[t] = uci[5]
                      ELSE NoSquare
                 ELSE NoPromotion
        bad == [raised |-> TRUE, move |-> Move(0, 0, NoPromotion)]
    IN
    IF uci = <<"0", "0", "0", "0">> THEN [raised |-> FALSE, move |-> Move(0, 0, NoPromotion)]
    ELSE IF Len(uci) \notin { 4, 5 } THEN bad
    ELSE IF from = NoSquare \/ to = NoSquare \/ promo = NoSquare THEN bad
    ELSE IF from = to THEN bad
    ELSE [raised |-> FALSE, move |-> Move(from, to, promo)]

\* Board.piece_at(sq)
piece_at(b, sq) == b.pieces[sq]

\* Python's truth value of an optional tuple or object: None is false.
Truthy(v) == v # None

\* What handling one click leaves: the board, the selection, the exception
\* that left the handler ("" for none), and for the record of the step whether
\* a ValueError was caught, whether a candidate was tested against the legal
\* moves, its promotion, and whether it was pushed.
Outcome(kind, b, sel, raised, caught, tested, promo, pushed) ==
    [kind |-> kind, board |-> b, selected |-> sel, raised |-> raised,
     caught |-> caught, tested |-> tested, promotion |-> promo, pushed |-> pushed]

\* MoveBuilder with the promotion test reading rank 8 only: a black pawn
\* reaching rank 1 gets no 'q'.
MoveBuilderRankEightOnly(b, start_square_name, chess_square_name) ==
    LET move_uci == start_square_name \o chess_square_name
        first == from_uci(move_uci)
        origin == piece_at(b, first.move.from_square)
        far == square_rank(first.move.to_square) = 7
        second == from_uci(move_uci \o <<"q">>)
    IN
    IF first.raised THEN [raised |-> "ValueError", move |-> first.move]
    ELSE IF origin = None THEN [raised |-> "AttributeError", move |-> first.move]
    ELSE IF piece_type(origin) = PAWN /\ far
         THEN [raised |-> IF second.raised THEN "ValueError" ELSE "", move |-> second.move]
         ELSE [raised |-> "", move |-> first.move]

\* Lines 124-133, the body of the try block before the membership test: the
\* candidate is parsed from the two square names; when the origin's piece is a
\* pawn and the target lies on rank 8 or rank 1, 'q' is appended and the text
\* parsed again. from_uci raises ValueError; reading .piece_type off an empty
\* origin square raises AttributeError.
MoveBuilder(b, start_square_name, chess_square_name) ==
    LET move_uci == start_square_name \o chess_square_name
        first == from_uci(move_uci)
        origin == piece_at(b, first.move.from_square)
        far == square_rank(first.move.to_square) = 7 \/ square_rank(first.move.to_square) = 0
        second == from_uci(move_uci \o <<"q">>)
    IN
    IF first.raised THEN [raised |-> "ValueError", move |-> first.move]
    ELSE IF origin = None THEN [raised |-> "AttributeError", move |-> first.move]
    ELSE IF piece_type(origin) = PAWN /\ far
         THEN [raised |-> IF second.raised THEN "ValueError" ELSE "", move |-> second.move]
         ELSE [raised |-> "", move |-> first.move]

\* SecondClick with the selection kept when the candidate is not legal, so
\* that the user may try another target.
SecondClickKeepsOrigin(b, sel, chess_square_name) ==
    LET built == MoveBuilder(b, square_name(cell_to_square_id(sel)), chess_square_name) IN
    IF built.raised = "AttributeError"
    THEN Outcome("second_click", b, sel, "AttributeError", FALSE, FALSE, NoPromotion, FALSE)
    ELSE IF built.raised = "ValueError"
    THEN Outcome("second_click", b, None, "", TRUE, FALSE, NoPromotion, FALSE)
    ELSE IF is_legal(b, built.move)
    THEN Outcome("second_click", push(b, built.move), None, "", FALSE, TRUE, built.move.promotion, TRUE)
    ELSE Outcome("second_click", b, sel, "", FALSE, TRUE, built.move.promotion, FALSE)

\* SecondClick with the push left out: a legal candidate only clears the selection.
SecondClickDropsMove(b, sel, chess_square_name) ==
    LET built == MoveBuilder(b, square_name(cell_to_square_id(sel)), chess_square_name) IN
    IF built.raised = "AttributeError"
    THEN Outcome("second_click", b, sel, "AttributeError", FALSE, FALSE, NoPromotion, FALSE)
    ELSE IF built.raised = "ValueError"
    THEN Outcome("second_click", b, None, "", TRUE, FALSE, NoPromotion, FALSE)
    ELSE Outcome("second_click", b, None, "", FALSE, TRUE, built.move.promotion, FALSE)

\* SecondClick testing the candidate with is_pseudo_legal only: a move that
\* leaves the mover's king attacked is pushed too.
SecondClickPseudoLegal(b, sel, chess_square_name) ==
    LET built == MoveBuilder(b, square_name(cell_to_square_id(sel)), chess_square_name) IN
    IF built.raised = "AttributeError"
    THEN Outcome("second_click", b, sel, "AttributeError", FALSE, FALSE, NoPromotion, FALSE)
    ELSE IF built.raised = "ValueError"
    THEN Outcome("second_click", b, None, "", TRUE, FALSE, NoPromotion, FALSE)
    ELSE IF is_pseudo_legal(b, built.move)
    THEN Outcome("second_click", push(b, built.move), None, "", FALSE, TRUE, built.move.promotion, TRUE)
    ELSE Outcome("second_click", b, None, "", FALSE, TRUE, built.move.promotion, FALSE)

\* SecondClick without the except clause: ValueError leaves the handler.
SecondClickUncaught(b, sel, chess_square_name) ==
    LET built == MoveBuilder(b, square_name(cell_to_square_id(sel)), chess_square_name) IN
    IF built.raised # ""
    THEN Outcome("second_click", b, sel, built.raised, FALSE, FALSE, NoPromotion, FALSE)
    ELSE IF is_legal(b, built.move)
    THEN Outcome("second_click", push(b, built.move), None, "", FALSE, TRUE, built.move.promotion, TRUE)
    ELSE Outcome("second_click", b, None, "", FALSE, TRUE, built.move.promotion, FALSE)

\* Lines 119-141: the second click. A legal candidate is pushed, ValueError
\* is swallowed, and the selection is reset; AttributeError is not caught and
\* leaves the handler before the reset.
SecondClick(b, sel, chess_square_name) ==
    LET built == MoveBuilder(b, square_name(cell_to_square_id(sel)), chess_square_name) IN
    IF built.raised = "AttributeError"
    THEN Outcome("second_click", b, sel, "AttributeError", FALSE, FALSE, NoPromotion, FALSE)
    ELSE IF built.raised = "ValueError"
    THEN Outcome("second_click", b, None, "", TRUE, FALSE, NoPromotion, FALSE)
    ELSE IF is_legal(b, built.move)
    THEN Outcome("second_click", push(b, built.move), None, "", FALSE, TRUE, built.move.promotion, TRUE)
    ELSE Outcome("second_click", b, None, "", FALSE, TRUE, built.move.promotion, FALSE)

\* FirstClick without the test of the piece: any cell clicked is selected.
FirstClickAnyCell(b, clicked_coords, chess_square_name) ==
    Outcome("first_click", b, clicked_coords, "", FALSE, FALSE, NoPromotion, FALSE)

\* FirstClick without the turn test: any piece is selected.
FirstClickAnySide(b, clicked_coords, chess_square_name) ==
    LET piece == piece_at(b, parse_square(chess_square_name)) IN
    IF Truthy(piece)
    THEN Outcome("first_click", b, clicked_coords, "", FALSE, FALSE, NoPromotion, FALSE)
    ELSE Outcome("first_click", b, None, "", FALSE, FALSE, NoPromotion, FALSE)

\* Lines 143-149: the first click selects the cell when its square holds a
\* piece of the side to move.
FirstClick(b, clicked_coords, chess_square_name) ==
    LET piece == piece_at(b, parse_square(chess_square_name)) IN
    IF Truthy(piece) /\ piece_color(piece) = b.turn
    THEN Outcome("first_click", b, clicked_coords, "", FALSE, FALSE, NoPromotion, FALSE)
    ELSE Outcome("first_click", b, None, "", FALSE, FALSE, NoPromotion, FALSE)

\* LeftClick with a click outside the board clearing the selection.
LeftClickOutsideDeselects(b, sel, pos) ==
    LET clicked_coords == pixel_to_cell(pos)
        chess_square_name == square_name(cell_to_square_id(clicked_coords))
    IN
    IF ~InBounds(clicked_coords)
    THEN Outcome("out_of_bounds", b, None, "", FALSE, FALSE, NoPromotion, FALSE)
    ELSE IF Truthy(sel) THEN SecondClick(b, sel, chess_square_name)
    ELSE FirstClick(b, clicked_coords, chess_square_name)

\* Lines 107-149: a left click at pixel pos.
LeftClick(b, sel, pos) ==
    LET clicked_coords == pixel_to_cell(pos)
        chess_square_name == square_name(cell_to_square_id(clicked_coords))
    IN
    IF ~InBounds(clicked_coords)
    THEN Outcome("out_of_bounds", b, sel, "", FALSE, FALSE, NoPromotion, FALSE)
    ELSE IF Truthy(sel) THEN SecondClick(b, sel, chess_square_name)
    ELSE FirstClick(b, clicked_coords, chess_square_name)

\* ---------------------------------------------------------------------------
\* 5. Rendering (chess.py lines 21-24, 57-89, 152-174)
\* ---------------------------------------------------------------------------
\* PIECE_IMAGE_KEYS: 'p' -> 'bP', ..., 'K' -> 'wK'
PIECE_IMAGE_KEYS ==
    [ch \in { "p", "n", "b", "r", "q", "k", "P", "N", "B", "R", "Q", "K" } |->
        CASE ch = "p" -> "bP" [] ch = "n" -> "bN" [] ch = "b" -> "bB"
          [] ch = "r" -> "bR" [] ch = "q" -> "bQ" [] ch = "k" -> "bK"
          [] ch = "P" -> "wP" [] ch = "N" -> "wN" [] ch = "B" -> "wB"
          [] ch = "R" -> "wR" [] ch = "Q" -> "wQ" [] ch = "K" -> "wK"]

\* The keys of PIECES = load_pieces(): an image or a placeholder for each name.
PIECES == { PIECE_IMAGE_KEYS[ch] : ch \in DOMAIN PIECE_IMAGE_KEYS }

Cells == (0 .. 7) \X (0 .. 7)

\* draw_board without the flip of the rows: rank 1 is drawn at the top.
draw_board_unflipped(b) ==
    [cell \in Cells |->
        LET square_index == square(cell[1], cell[2])
            piece == piece_at(b, square_index)
        IN
        IF Truthy(piece) /\ PIECE_IMAGE_KEYS[symbol(piece)] \in PIECES
        THEN PIECE_IMAGE_KEYS[symbol(piece)]
        ELSE ""]

\* draw_board: the image blitted at each cell's pixel origin ("" for none).
draw_board(b) ==
    [cell \in Cells |->
        LET square_index == cell_to_square_id(cell)
            piece == piece_at(b, square_index)
        IN
        IF Truthy(piece) /\ PIECE_IMAGE_KEYS[symbol(piece)] \in PIECES
        THEN PIECE_IMAGE_KEYS[symbol(piece)]
        ELSE ""]

\* status_text with the check test placed first: a mate is shown as a check.
status_text_check_first(b) ==
    LET turn_text == <<"Turn: ", IF b.turn = WHITE THEN "White" ELSE "Black">> IN
    IF is_check(b) THEN turn_text \o <<" (CHECK)">>
    ELSE IF is_checkmate(b) THEN <<"CHECKMATE! ", IF b.turn = WHITE THEN "Black Wins" ELSE "White Wins">>
    ELSE IF is_stalemate(b) THEN <<"STALEMATE (Draw)">>
    ELSE turn_text

\* Lines 164-171: the status line, as the pieces it is concatenated from.
status_text(b) ==
    LET turn_text == <<"Turn: ", IF b.turn = WHITE THEN "White" ELSE "Black">> IN
    IF is_checkmate(b) THEN <<"CHECKMATE! ", IF b.turn = WHITE THEN "Black Wins" ELSE "White Wins">>
    ELSE IF is_stalemate(b) THEN <<"STALEMATE (Draw)">>
    ELSE IF is_check(b) THEN turn_text \o <<" (CHECK)">>
    ELSE turn_text

\* Lines 152-174: one frame: the board, the highlight overlay (the selected
\* cell, or None) and the status line.
Render(b, sel) ==
    [blits |-> draw_board(b), highlight |-> IF Truthy(sel) THEN sel ELSE None, status |-> status_text(b)]

\* Nothing drawn yet.
NoFrame == [blits |-> [cell \in Cells |-> ""], highlight |-> None, status |-> <<>>]

\* ---------------------------------------------------------------------------
\* 6. The game loop (chess.py lines 93-181)
\* ---------------------------------------------------------------------------
\* Bounds of the exploration.
\* Events returned by one pygame.event.get().
MaxBatch == 2
\* Moves pushed in one run.
MaxPlies == 1

VARIABLES
    game_board,              \* chess.Board(): pieces, turn, castling_rights, ep_square
    selected_square_coords,  \* None or the selected (col, row)
    running,                 \* the loop flag
    pc,                      \* "loop": at the while test; "events": in the for loop;
                             \* "done": after pygame.quit(); "crashed": an exception left
                             \* the handling of an event; "failed": chess.Board() raised
                             \* at line 94, before the loop; "module": at line 53,
                             \* main() not called yet
    pending,                 \* events of the polled batch not handled yet
    screen,                  \* the frame last drawn
    last,                    \* record of the event handled last in the batch (see Outcome)
    plies,                   \* moves pushed so far
    probe,                   \* the coordinate mapper's input and results (MapperSpec)
    loader                   \* load_pieces(): the assets found and the dictionary built (LoaderSpec)

vars == <<game_board, selected_square_coords, running, pc, pending, screen, last, plies, probe, loader>>

\* --- events ------------------------------------------------------------------
QuitEvent == [type |-> "QUIT", pos |-> <<0, 0>>, button |-> 0]
\* An event the loop has no branch for (mouse motion, a key).
OtherEvent == [type |-> "OTHER", pos |-> <<0, 0>>, button |-> 0]
MouseButtonDown(pos, button) == [type |-> "MOUSEBUTTONDOWN", pos |-> pos, button |-> button]

\* Pixels clicked: the cells of files a, d and e, each at one of its corner
\* pixels, and two columns of the side panel.
ClickCols == { 0, 3, 4 }
ClickXs == { col * SQUARE_SIZE + (IF col % 2 = 0 THEN 0 ELSE SQUARE_SIZE - 1) : col \in ClickCols } \cup { BOARD_SIZE, SCREEN_WIDTH - 1 }
ClickYs == { row * SQUARE_SIZE + (IF row % 2 = 0 THEN SQUARE_SIZE - 1 ELSE 0) : row \in 0 .. 7 }
Buttons == { 1, 3 }
Events ==
    { QuitEvent, OtherEvent } \cup { MouseButtonDown(<<x, y>>, bt) : x \in ClickXs, y \in ClickYs, bt \in Buttons }

NoLast == Outcome("none", StartingBoard, None, "", FALSE, FALSE, NoPromotion, FALSE)
LastOf(o) == [o EXCEPT !.board = StartingBoard, !.selected = None]

\* EventOutcome without the button test: every mouse button clicks.
EventOutcomeAnyButton(ev, b, sel) ==
    IF ev.type = "MOUSEBUTTONDOWN" THEN LeftClick(b, sel, ev.pos)
    ELSE Outcome(IF ev.type = "QUIT" THEN "quit" ELSE "ignored", b, sel, "", FALSE, FALSE, NoPromotion, FALSE)

\* Lines 102-149: what handling one event leaves.
EventOutcome(ev, b, sel) ==
    IF ev.type = "MOUSEBUTTONDOWN" /\ ev.button = 1 THEN LeftClick(b, sel, ev.pos)
    ELSE Outcome(IF ev.type = "QUIT" THEN "quit"
                 ELSE IF ev.type = "MOUSEBUTTONDOWN" THEN "other_button"
                 ELSE "ignored",
                 b, sel, "", FALSE, FALSE, NoPromotion, FALSE)

\* --- actions -----------------------------------------------------------------
\* Poll under `while True`: the flag is not tested before the next batch.
PollIgnoresFlag ==
    /\ pc = "loop"
    /\ \E n \in 0 .. MaxBatch : pending' = n
    /\ pc' = "events"
    /\ last' = NoLast
    /\ UNCHANGED <<game_board, selected_square_coords, running, screen, plies, probe, loader>>

\* Line 100-101: the loop test passes and pygame.event.get() returns a batch.
Poll ==
    /\ pc = "loop"
    /\ running
    /\ \E n \in 0 .. MaxBatch : pending' = n
    /\ pc' = "events"
    /\ last' = NoLast
    /\ UNCHANGED <<game_board, selected_square_coords, running, screen, plies, probe, loader>>

\* Lines 101-149: one event of the batch is handled.
HandleEvent(ev) ==
    /\ pc = "events"
    /\ pending > 0
    /\ \E o \in { EventOutcome(ev, game_board, selected_square_coords) } :
        /\ o.pushed => plies < MaxPlies
        /\ running' = IF ev.type = "QUIT" THEN FALSE ELSE running
        /\ game_board' = o.board
        /\ selected_square_coords' = o.selected
        /\ plies' = IF o.pushed THEN plies + 1 ELSE plies
        /\ last' = LastOf(o)
        /\ IF o.raised # ""
           THEN pc' = "crashed" /\ pending' = 0
           ELSE pc' = pc /\ pending' = pending - 1
        /\ UNCHANGED <<screen, probe, loader>>

\* Draw running inside the for loop: a frame is drawn while events of the
\* batch are still to be handled.
DrawMidBatch ==
    /\ pc = "events"
    /\ screen' = Render(game_board, selected_square_coords)
    /\ pc' = "loop"
    /\ pending' = 0
    /\ UNCHANGED <<game_board, selected_square_coords, running, last, plies, probe, loader>>

\* Lines 151-179: the batch is exhausted; the frame is drawn and flipped.
Draw ==
    /\ pc = "events"
    /\ pending = 0
    /\ screen' = Render(game_board, selected_square_coords)
    /\ pc' = "loop"
    /\ UNCHANGED <<game_board, selected_square_coords, running, pending, last, plies, probe, loader>>

\* Lines 100, 181: the loop test fails; pygame.quit().
Quit ==
    /\ pc = "loop"
    /\ ~running
    /\ pc' = "done"
    /\ UNCHANGED <<game_board, selected_square_coords, running, pending, screen, last, plies, probe, loader>>

\* Positions play can reach, from which runs start besides the starting one.
\* Promotions on both sides, by advance and by capture.
PromotionBoard(turn) ==
    Position(<< <<".",".",".","n",".",".","k",".">>,
                <<".",".",".",".","P",".",".",".">>,
                <<".",".",".",".",".",".",".",".">>,
                <<".",".",".",".",".",".",".",".">>,
                <<".",".",".",".",".",".",".",".">>,
                <<".",".",".",".",".",".",".",".">>,
                <<".",".",".",".","p",".",".",".">>,
                <<".",".",".","N",".",".","K",".">> >>,
             turn, {}, NoSquare)

\* King and queen against king: mate (Qd8), stalemate (Qd6) and check (Qd5)
\* are one move away.
QueenEndingWhite ==
    Position(<< <<"k",".",".",".",".",".",".",".">>,
                <<".",".",".",".",".",".",".",".">>,
                <<".","K",".",".",".",".",".",".">>,
                <<".",".",".",".",".",".",".",".">>,
                <<".",".",".",".",".",".",".",".">>,
                <<".",".",".",".",".",".",".",".">>,
                <<".",".",".",".",".",".",".",".">>,
                <<".",".",".","Q",".",".",".",".">> >>,
             WHITE, {}, NoSquare)

QueenEndingBlack ==
    Position(<< <<".",".",".","q",".",".",".",".">>,
                <<".",".",".",".",".",".",".",".">>,
                <<".",".",".",".",".",".",".",".">>,
                <<".",".",".",".",".",".",".",".">>,
                <<".",".",".",".",".",".",".",".">>,
                <<".","k",".",".",".",".",".",".">>,
                <<".",".",".",".",".",".",".",".">>,
                <<"K",".",".",".",".",".",".",".">> >>,
             BLACK, {}, NoSquare)

\* Castling on the queen's wing and an en-passant capture are available.
CastlingBoard ==
    Position(<< <<".",".",".",".",".",".","k",".">>,
                <<".",".",".",".",".",".",".",".">>,
                <<".",".",".",".",".",".",".",".">>,
                <<".",".",".","p","P",".",".",".">>,
                <<".",".",".",".",".",".",".",".">>,
                <<".",".",".",".",".",".",".",".">>,
                <<".",".",".",".",".",".",".",".">>,
                <<"R",".",".",".","K",".",".",".">> >>,
             WHITE, { A1 }, square(3, 5))

InitialBoards ==
    { StartingBoard, PromotionBoard(WHITE), PromotionBoard(BLACK),
      QueenEndingWhite, QueenEndingBlack, CastlingBoard }

\* The mapper's record before any input.
NoProbe == [stage |-> "none", pos |-> <<0, 0>>, cell |-> None, sq |-> NoSquare, back |-> None]

\* load_pieces() has returned with every image found (line 53), before main().
AllLoaded ==
    [stage |-> "returned", isdir |-> TRUE,
     files |-> [name \in PIECES |-> "image"],
     pieces |-> [name \in PIECES |-> "image"],
     index |-> 13, raised |-> ""]

\* load_pieces() has returned 12 grey surfaces (lines 31-38): there is no
\* assets folder, as in the repository itself.
AllGrey ==
    [stage |-> "returned", isdir |-> FALSE,
     files |-> [name \in PIECES |-> "missing"],
     pieces |-> [name \in PIECES |-> "grey"],
     index |-> 1, raised |-> ""]

\* What the name chess is bound to by line 2. The file is itself named
\* chess.py: started as `python3 chess.py` the script's folder comes first on
\* sys.path and the import finds the script ("script"), which has no
\* attribute Board; with the folder off the path (python3 -P, PYTHONSAFEPATH,
\* isolated mode) the import finds the python-chess package ("package").
ChessModules == { "package", "script" }

\* The filler for game_board when line 94 raised and no board was made.
NoBoard ==
    [pieces |-> [sq \in Squares |-> None], turn |-> WHITE,
     castling_rights |-> {}, ep_square |-> NoSquare]

\* main() up to the loop (lines 94-98). chess.Board() at line 94 returns the
\* starting position or, when chess is the script, raises AttributeError:
\* main() ends there with no local bound (game_board, selected_square_coords
\* and running hold fillers). The other boards of InitialBoards are positions
\* of later play, taken up with the images loaded.
Init ==
    /\ pending = 0
    /\ screen = NoFrame
    /\ last = NoLast
    /\ plies = 0
    /\ probe = NoProbe
    /\ selected_square_coords = None
    /\ \E chess \in ChessModules :
          IF chess = "package"
          THEN /\ game_board \in InitialBoards
               /\ loader \in IF game_board = StartingBoard THEN { AllLoaded, AllGrey } ELSE { AllLoaded }
               /\ running = TRUE
               /\ pc = "loop"
          ELSE /\ game_board = NoBoard
               /\ loader \in { AllLoaded, AllGrey }
               /\ running = FALSE
               /\ pc = "failed"

Next ==
    \/ Poll
    \/ \E ev \in Events : HandleEvent(ev)
    \/ Draw
    \/ Quit

Spec == Init /\ [][Next]_vars

\* The loop under fairness, over a smaller alphabet of events: quit, an event
\* of another type, a right click, a click in the side panel, and clicks on
\* e2 and e7 (selections, deselections and discarded candidates).
LoopEvents ==
    { QuitEvent, OtherEvent,
      MouseButtonDown(<<4 * SQUARE_SIZE, 7 * SQUARE_SIZE - 1>>, 3),
      MouseButtonDown(<<BOARD_SIZE, SQUARE_SIZE - 1>>, 1),
      MouseButtonDown(<<4 * SQUARE_SIZE, 7 * SQUARE_SIZE - 1>>, 1),
      MouseButtonDown(<<4 * SQUARE_SIZE, 2 * SQUARE_SIZE - 1>>, 1) }

FairNext ==
    \/ Poll
    \/ \E ev \in LoopEvents : HandleEvent(ev)
    \/ Draw
    \/ Quit

\* The loop is one sequential thread whose calls all return
\* (pygame.event.get() does not block, clock.tick(FPS) waits one frame at
\* most): a step that can be taken is taken.
FairSpec == Init /\ [][FairNext]_vars /\ WF_vars(FairNext)

\* ---------------------------------------------------------------------------
\* 7. The coordinate mapper on its own: pixel -> cell -> square -> cell
\* ---------------------------------------------------------------------------
\* Pixels up to PixelMargin beyond the window's edges are tried as well.
PixelMargin == 80

CornerPixels == { c * SQUARE_SIZE + d : c \in 0 .. 7, d \in { 0, SQUARE_SIZE - 1 } }
ProbeXs == (0 - PixelMargin) .. (SCREEN_WIDTH - 1 + PixelMargin)
ProbeYs == (0 - PixelMargin) .. (SCREEN_HEIGHT - 1 + PixelMargin)
ProbePixels ==
    (ProbeXs \X { 0, BOARD_SIZE - 1 }) \cup ({ 0, BOARD_SIZE - 1 } \X ProbeYs) \cup (CornerPixels \X CornerPixels)

MapperInit ==
    /\ loader = AllLoaded
    /\ game_board = StartingBoard
    /\ selected_square_coords = None
    /\ running = TRUE
    /\ pc = "loop"
    /\ pending = 0
    /\ screen = NoFrame
    /\ last = NoLast
    /\ plies = 0
    /\ \E pos \in ProbePixels : probe = [NoProbe EXCEPT !.stage = "pixel", !.pos = pos]

\* Lines 107-109
MapPixel ==
    /\ probe.stage = "pixel"
    /\ probe' = [probe EXCEPT !.stage = "cell", !.cell = pixel_to_cell(probe.pos)]
    /\ UNCHANGED <<game_board, selected_square_coords, running, pc, pending, screen, last, plies, loader>>

\* Lines 112-117
MapCell ==
    /\ probe.stage = "cell"
    /\ InBounds(probe.cell)
    /\ probe' = [probe EXCEPT !.stage = "square", !.sq = cell_to_square_id(probe.cell)]
    /\ UNCHANGED <<game_board, selected_square_coords, running, pc, pending, screen, last, plies, loader>>

MapBack ==
    /\ probe.stage = "square"
    /\ probe' = [probe EXCEPT !.stage = "back", !.back = square_id_to_cell(probe.sq)]
    /\ UNCHANGED <<game_board, selected_square_coords, running, pc, pending, screen, last, plies, loader>>

MapperNext == MapPixel \/ MapCell \/ MapBack

MapperSpec == MapperInit /\ [][MapperNext]_vars

\* ---------------------------------------------------------------------------
\* 8. Asset loading on its own (chess.py lines 26-53)
\* ---------------------------------------------------------------------------
\* Image files that are missing or unreadable in one assets folder.
MaxBadAssets == 2

\* The order in which the for loop of line 40 walks PIECE_IMAGE_KEYS.
KeyOrder == <<"p", "n", "b", "r", "q", "k", "P", "N", "B", "R", "Q", "K">>

\* pygame.image.load(img_path).convert_alpha() on a file of the folder: an
\* image loads; a file that is no image raises pygame.error; a file that is
\* not there raises pygame.error in pygame 1.9 and FileNotFoundError (an
\* OSError, no pygame.error) since pygame 2.0. The repository pins no version.
image_load(file) ==
    CASE file = "image" -> { "image" }
      [] file = "unreadable" -> { "pygame.error" }
      [] file = "missing" -> { "pygame.error", "FileNotFoundError" }

\* The assets folders tried: at most MaxBadAssets files missing or unreadable.
AssetFolders ==
    UNION { { [name \in PIECES |-> IF name \in bad THEN kinds[name] ELSE "image"] :
                kinds \in [bad -> { "missing", "unreadable" }] } :
            bad \in { b \in SUBSET PIECES : Cardinality(b) <= MaxBadAssets } }

NoPieces == [name \in PIECES |-> "absent"]

LoaderInit ==
    /\ game_board = NoBoard
    /\ selected_square_coords = None
    /\ running = FALSE
    /\ pc = "module"
    /\ pending = 0
    /\ screen = NoFrame
    /\ last = NoLast
    /\ plies = 0
    /\ probe = NoProbe
    /\ \/ loader = [stage |-> "start", isdir |-> FALSE, files |-> [name \in PIECES |-> "missing"],
                    pieces |-> NoPieces, index |-> 1, raised |-> ""]
       \/ \E files \in AssetFolders :
             loader = [stage |-> "start", isdir |-> TRUE, files |-> files,
                       pieces |-> NoPieces, index |-> 1, raised |-> ""]

\* Lines 28-38: without an assets folder every name gets a grey surface and
\* the dictionary is returned; with one, the for loop starts.
LoadStart ==
    /\ loader.stage = "start"
    /\ loader' = IF ~loader.isdir
                 THEN [loader EXCEPT !.stage = "returned", !.pieces = [name \in PIECES |-> "grey"]]
                 ELSE [loader EXCEPT !.stage = "loop"]
    /\ UNCHANGED <<game_board, selected_square_coords, running, pc, pending, screen, last, plies, probe>>

\* Lines 40-49: one iteration: the image is loaded and scaled; pygame.error
\* is caught and a red surface stored; any other exception leaves load_pieces.
LoadOne ==
    /\ loader.stage = "loop"
    /\ loader.index <= Len(KeyOrder)
    /\ LET name == PIECE_IMAGE_KEYS[KeyOrder[loader.index]] IN
       \E got \in image_load(loader.files[name]) :
           loader' = CASE got = "image" ->
                            [loader EXCEPT !.pieces[name] = "image", !.index = @ + 1]
                       [] got = "pygame.error" ->
                            [loader EXCEPT !.pieces[name] = "red", !.index = @ + 1]
                       [] OTHER ->
                            [loader EXCEPT !.stage = "raised", !.raised = got]
    /\ UNCHANGED <<game_board, selected_square_coords, running, pc, pending, screen, last, plies, probe>>

\* Line 51: the loop is done; the dictionary is returned.
LoadReturn ==
    /\ loader.stage = "loop"
    /\ loader.index > Len(KeyOrder)
    /\ loader' = [loader EXCEPT !.stage = "returned"]
    /\ UNCHANGED <<game_board, selected_square_coords, running, pc, pending, screen, last, plies, probe>>

LoaderNext == LoadStart \/ LoadOne \/ LoadReturn

LoaderSpec == LoaderInit /\ [][LoaderNext]_vars

\* ---------------------------------------------------------------------------
\* 9. Properties
\* ---------------------------------------------------------------------------
\* An event of the polled batch is about to be handled.
AboutToHandle == pc = "events" /\ pending > 0
IsLeftClick(ev) == ev.type = "MOUSEBUTTONDOWN" /\ ev.button = 1
\* The cell a click lands in, by the division alone.
ClickCell(ev) == <<ev.pos[1] \div SQUARE_SIZE, ev.pos[2] \div SQUARE_SIZE>>
OnGrid(cell) == cell[1] \in 0 .. 7 /\ cell[2] \in 0 .. 7
GridClicks == { ev \in Events : IsLeftClick(ev) /\ OnGrid(ClickCell(ev)) }
\* The engine square under a cell: file = column, rank = 7 - row.
SquareUnder(cell) == (7 - cell[2]) * 8 + cell[1]
Selected == selected_square_coords # None
\* What handling ev in the current state leaves.
After(ev) == EventOutcome(ev, game_board, selected_square_coords)
\* The candidate the promotion policy prescribes for origin -> target.
Candidate(b, origin, target) ==
    Move(origin, target,
         IF b.pieces[origin] # None /\ b.pieces[origin][1] = PAWN /\ target \div 8 \in { 0, 7 }
         THEN QUEEN ELSE NoPromotion)

\* C1. Two-click resolution is total: with a cell selected, handling any left
\* click on the grid (a legal target, an illegal one, an empty cell, the
\* origin itself) leaves the selection empty.
C1_TwoClickResolutionTotal ==
    AboutToHandle /\ Selected =>
        \A ev \in GridClicks : After(ev).selected = None

\* C1 witness: a second click has been handled and the selection is empty.
C1_Witness ==
    last.kind = "second_click" /\ selected_square_coords = None /\ pc = "events"

\* C2. Turn-gated selection: with nothing selected, a left click on the grid
\* selects the clicked cell exactly when its square holds a piece of the side
\* to move; otherwise the selection stays empty; the board is unchanged either
\* way.
C2_TurnGatedSelection ==
    AboutToHandle /\ ~Selected =>
        \A ev \in GridClicks :
            LET p == game_board.pieces[SquareUnder(ClickCell(ev))]
                own == p # None /\ p[2] = game_board.turn
                after == After(ev)
            IN
            /\ after.selected = IF own THEN ClickCell(ev) ELSE None
            /\ after.board = game_board
            /\ ~after.tested /\ ~after.caught

\* C2 witness: after a move was pushed, a piece of the side now to move
\* (Black, in a run from the starting position) has been selected by a first click.
C2_Witness ==
    /\ last.kind = "first_click"
    /\ plies = 1
    /\ Selected
    /\ game_board.pieces[SquareUnder(selected_square_coords)][2] = BLACK
    /\ game_board.turn = BLACK

\* C3. A legal second click applies the move: with origin selected, a left
\* click on a cell whose candidate origin -> cell is legal pushes exactly that
\* move, hands the turn to the other side and empties the selection.
C3_LegalSecondClickApplies ==
    AboutToHandle /\ Selected =>
        \A ev \in GridClicks :
            LET origin == SquareUnder(selected_square_coords)
                target == SquareUnder(ClickCell(ev))
                cand == Candidate(game_board, origin, target)
                after == After(ev)
            IN
            origin # target /\ is_legal(game_board, cand) =>
                /\ after.pushed
                /\ after.board = push(game_board, cand)
                /\ after.board.turn = ~game_board.turn
                /\ after.board.pieces[origin] = None
                /\ after.selected = None

\* C3 witness: from the starting position e2 then e4 were clicked: e2e4 is on
\* the board, it is Black's turn and nothing is selected.
C3_Witness ==
    /\ game_board = push(StartingBoard, Move(square(4, 1), square(4, 3), NoPromotion))
    /\ game_board.pieces[square(4, 3)] = Piece(PAWN, WHITE)
    /\ game_board.turn = BLACK
    /\ last.pushed
    /\ plies = 1
    /\ selected_square_coords = None

\* C4. An illegal destination leaves the board untouched: with origin
\* selected, a left click on another cell whose candidate is not legal changes
\* neither the position nor the side to move, and empties the selection.
C4_IllegalDestinationDiscarded ==
    AboutToHandle /\ Selected =>
        \A ev \in GridClicks :
            LET origin == SquareUnder(selected_square_coords)
                target == SquareUnder(ClickCell(ev))
                after == After(ev)
            IN
            origin # target /\ ~is_legal(game_board, Candidate(game_board, origin, target)) =>
                /\ after.board = game_board
                /\ ~after.pushed
                /\ after.selected = None

\* C4 witness: a candidate was tested, found illegal and discarded; no move
\* has been pushed and the selection is empty.
C4_Witness ==
    /\ last.kind = "second_click"
    /\ last.tested
    /\ ~last.pushed
    /\ plies = 0
    /\ game_board \in InitialBoards
    /\ selected_square_coords = None

\* C5. Bounds rejection: a left click whose pixel maps to a column or row
\* outside 0..7 changes neither the selection (empty or not) nor the board, and
\* builds no candidate.
C5_BoundsRejection ==
    AboutToHandle =>
        \A ev \in Events :
            IsLeftClick(ev) /\ ~OnGrid(ClickCell(ev)) =>
                LET after == After(ev)
                IN
                /\ after.selected = selected_square_coords
                /\ after.board = game_board
                /\ ~after.tested /\ ~after.caught /\ ~after.pushed
                /\ after.raised = ""

\* C5 witness: a click in the side panel was handled while a cell was
\* selected, and the cell is still selected.
C5_Witness ==
    last.kind = "out_of_bounds" /\ Selected /\ pc = "events"

\* The pieces of one type and colour on a board.
CountOf(b, t, c) == Cardinality({ sq \in Squares : b.pieces[sq] = Piece(t, c) })

\* C6. Auto-promotion: on a second click on another cell, the candidate tested
\* against the legal moves promotes to a queen when the origin's piece is a
\* pawn and the target's rank is 7 or 0, and promotes nothing otherwise; so a
\* pushed pawn move to a back rank leaves a queen there, and no move adds a
\* rook, bishop or knight.
C6_AutoQueenPromotion ==
    AboutToHandle /\ Selected =>
        \A ev \in GridClicks :
            LET origin == SquareUnder(selected_square_coords)
                target == SquareUnder(ClickCell(ev))
                p == game_board.pieces[origin]
                pawnFar == p # None /\ p[1] = PAWN /\ target \div 8 \in { 0, 7 }
                after == After(ev)
            IN
            origin # target =>
                /\ after.tested
                /\ after.promotion = IF pawnFar THEN QUEEN ELSE NoPromotion
                /\ after.pushed /\ pawnFar => after.board.pieces[target] = Piece(QUEEN, game_board.turn)
                /\ ~after.pushed => after.board = game_board
                /\ after.pushed =>
                       \A t \in { KNIGHT, BISHOP, ROOK } : \A c \in BOOLEAN :
                           CountOf(after.board, t, c) <= CountOf(game_board, t, c)

\* C6 witness: a black pawn's move to rank 1 was pushed as a queen promotion.
C6_Witness ==
    /\ last.pushed
    /\ last.promotion = QUEEN
    /\ game_board.turn = WHITE
    /\ CountOf(game_board, QUEEN, BLACK) = 1
    /\ CountOf(game_board, PAWN, BLACK) = 0
    /\ \E sq \in 0 .. 7 : game_board.pieces[sq] = Piece(QUEEN, BLACK)

\* The status the precedence checkmate > stalemate > check > turn prescribes.
SideName(c) == IF c = WHITE THEN "White" ELSE "Black"
NoLegalMove(b) == ~\E m \in CandidateMoves(b) : is_legal(b, m)
ExpectedStatus(b) ==
    LET check == is_check(b)
        stuck == NoLegalMove(b)
    IN
    CASE check /\ stuck -> <<"CHECKMATE! ", SideName(~b.turn) \o " Wins">>
      [] ~check /\ stuck -> <<"STALEMATE (Draw)">>
      [] check /\ ~stuck -> <<"Turn: ", SideName(b.turn), " (CHECK)">>
      [] OTHER -> <<"Turn: ", SideName(b.turn)>>

\* C7. Status precedence: the status line of a drawn frame is the one the
\* board drawn prescribes: checkmate (won by the side not to move) before
\* stalemate before check before the plain turn; a mate is never shown as a
\* check.
C7_StatusPrecedence ==
    /\ pc \in { "loop", "done" } /\ screen # NoFrame => screen.status = ExpectedStatus(game_board)
    /\ is_checkmate(game_board) => status_text(game_board)[1] = "CHECKMATE! "

\* C7 witness: a frame showing White's mate has been drawn.
C7_Witness ==
    /\ pc = "loop"
    /\ screen.status = <<"CHECKMATE! ", "White Wins">>
    /\ is_check(game_board)
    /\ game_board.turn = BLACK

\* C8. Coordinate round trip: a cell's square has file = column and
\* rank = 7 - row, the inverse maps it back to the cell, and the cells map
\* one to one onto the 64 squares.
C8_CoordinateRoundTrip ==
    /\ probe.stage \in { "square", "back" } =>
          /\ probe.sq \in Squares
          /\ probe.sq % 8 = probe.cell[1]
          /\ probe.sq \div 8 = 7 - probe.cell[2]
    /\ probe.stage = "back" =>
          /\ probe.back = probe.cell
          /\ square_id_to_cell(cell_to_square_id(probe.cell)) = probe.cell
          /\ { cell_to_square_id(c) : c \in Cells } = Squares
          /\ \A c \in Cells : cell_to_square_id(c) = probe.sq => c = probe.cell

\* C8 witness: the top-left cell was mapped to a8 and back.
C8_Witness ==
    probe.stage = "back" /\ probe.cell = <<0, 0>> /\ probe.sq = A8 /\ probe.back = <<0, 0>>

\* C9. pixel_to_cell: a pixel maps to the cell whose 80 x 80 square holds it;
\* the board is 8 x 80 = 640 wide in a window of 840 x 640; every pixel of the
\* board maps into 0..7 x 0..7, and a pixel with x >= 640 or y >= 640 is out
\* of bounds.
C9_PixelToCell ==
    /\ BOARD_SIZE = 640 /\ SCREEN_WIDTH = 840 /\ SCREEN_HEIGHT = 640
    /\ probe.stage = "cell" =>
          LET x == probe.pos[1]
              y == probe.pos[2]
              col == probe.cell[1]
              row == probe.cell[2]
          IN
          /\ col * 80 <= x /\ x < col * 80 + 80
          /\ row * 80 <= y /\ y < row * 80 + 80
          /\ 0 <= x /\ x < 640 /\ 0 <= y /\ y < 640 => InBounds(probe.cell) /\ col \in 0 .. 7 /\ row \in 0 .. 7
          /\ x >= 640 \/ y >= 640 => ~InBounds(probe.cell)
          /\ \A c \in 0 .. 7 : \A r \in 0 .. 7 :
                x - c * 80 \in 0 .. 79 /\ y - r * 80 \in 0 .. 79 => probe.cell = <<c, r>>

\* C9 witness: the last pixel of the board and the first of the side panel
\* have been mapped.
C9_Witness ==
    /\ probe.stage = "cell"
    /\ probe.pos = <<BOARD_SIZE, BOARD_SIZE - 1>>
    /\ probe.cell = <<8, 7>>
    /\ ~InBounds(probe.cell)

\* C10. Defensive move construction: handling an event never lets an error
\* leave the handler, and a second click on the origin itself, which parses
\* into no move, is treated as an illegal move: board unchanged, selection
\* reset.
C10_DefensiveMoveConstruction ==
    /\ pc # "crashed"
    /\ AboutToHandle =>
          \A ev \in Events :
              LET after == After(ev)
              IN
              /\ after.raised = ""
              /\ Selected /\ IsLeftClick(ev) /\ ClickCell(ev) = selected_square_coords =>
                    /\ after.board = game_board
                    /\ after.selected = None
                    /\ ~after.pushed

\* C10 witness: the origin was clicked again, the ValueError was swallowed,
\* and the loop goes on with nothing selected.
C10_Witness ==
    /\ last.kind = "second_click"
    /\ last.caught
    /\ selected_square_coords = None
    /\ pc = "loop"
    /\ running

\* C11. Atomic move before render: the board changes only in the handling of
\* a click, once, by one whole legal move, and every accepted move changes it;
\* a frame is drawn only when no event of the polled batch is left, and the
\* frame drawn is the board, highlight and status of the position and
\* selection the loop then holds, which stay as drawn until the next poll.
C11_AtomicMoveBeforeRender ==
    [][ /\ game_board' # game_board =>
              /\ pc = "events" /\ pending > 0 /\ pending' = pending - 1
              /\ last'.kind = "second_click" /\ last'.pushed
              /\ plies' = plies + 1
              /\ \E m \in generate_legal_moves(game_board) : game_board' = push(game_board, m)
              /\ screen' = screen
        /\ pc = "events" /\ pending > 0 /\ last'.pushed => game_board' # game_board
        /\ screen' # screen =>
              /\ pc = "events" /\ pending = 0
              /\ game_board' = game_board
              /\ selected_square_coords' = selected_square_coords
        /\ pc = "events" /\ pc' = "loop" =>
              /\ pending = 0
              /\ screen' = Render(game_board', selected_square_coords')
        /\ pc = "loop" => UNCHANGED <<game_board, selected_square_coords, screen>>
      ]_vars

\* C11 witness: a move was pushed in the batch just handled and the frame
\* drawn after it shows the position after the move, with Black to move.
C11_Witness ==
    /\ pc = "loop"
    /\ last.pushed
    /\ plies = 1
    /\ screen.blits = draw_board(game_board)
    /\ screen.status = <<"Turn: ", "Black">>
    /\ screen.highlight = None

\* C12. Orderly quit: the flag is set in the handling of a quit event and
\* stays set; the loop then handles the events left in the batch, draws the
\* frame of that iteration, and at the loop test leaves without polling again;
\* under fairness of the loop a flag cleared by a quit event leads to
\* termination.
C12_OrderlyQuit ==
    /\ [][ /\ running /\ ~running' =>
                 /\ pc = "events" /\ pending > 0 /\ last'.kind = "quit"
                 /\ pc' = "events" /\ pending' = pending - 1
           /\ ~running => ~running'
           /\ ~running /\ pc = "events" /\ pending > 0 =>
                 pc' = "events" /\ pending' = pending - 1 /\ screen' = screen
           /\ ~running /\ pc = "events" /\ pending = 0 =>
                 /\ pc' = "loop"
                 /\ screen'.blits = draw_board(game_board)
                 /\ screen'.highlight = selected_square_coords
           /\ ~running /\ pc = "loop" => pc' = "done"
           /\ pc \in { "loop", "done" } => screen' = screen
         ]_vars
    /\ (pc # "failed" /\ ~running ~> pc = "done")

\* C12 witness: a quit event and then a click came in one batch; the click
\* was handled, its selection drawn, and the loop has ended.
C12_Witness ==
    /\ pc = "done"
    /\ ~running
    /\ last.kind = "first_click"
    /\ Selected
    /\ screen.highlight = selected_square_coords

\* C13. Only quit ends the loop: until a quit event is received main() is in
\* its loop, at the loop test or among the events of a batch; it is out of
\* the loop only after pygame.quit(), with the flag cleared by a quit event;
\* no error ends it, whatever was clicked and whatever the position (mate
\* and stalemate included).
C13_OnlyQuitEndsLoop ==
    /\ pc \in { "loop", "events", "done" }
    /\ pc = "done" => ~running

\* C13 witness: chess.Board() raised at line 94: main() has ended with no
\* event polled, no frame drawn and no quit event received.
C13_Witness ==
    /\ pc = "failed"
    /\ game_board = NoBoard
    /\ screen = NoFrame
    /\ last = NoLast
    /\ pending = 0

\* C14. Asset degradation: load_pieces never fails, and the dictionary it
\* returns holds an image or a placeholder for each of the 12 names, a
\* placeholder for every name whose file is missing or unreadable, whether
\* the folder is absent or single files are.
C14_AssetDegradation ==
    /\ loader.stage # "raised"
    /\ loader.stage = "returned" =>
          \A name \in { "bP", "bN", "bB", "bR", "bQ", "bK", "wP", "wN", "wB", "wR", "wQ", "wK" } :
              /\ loader.pieces[name] \in { "image", "grey", "red" }
              /\ loader.files[name] # "image" => loader.pieces[name] \in { "grey", "red" }

\* C14 witness: a folder with an unreadable wK.png and a missing bP.png was
\* loaded to the end, where the missing file raised pygame.error: both names
\* hold a red surface, the others their images.
C14_Witness ==
    /\ loader.stage = "returned"
    /\ loader.isdir
    /\ loader.files["wK"] = "unreadable" /\ loader.pieces["wK"] = "red"
    /\ loader.files["bP"] = "missing" /\ loader.pieces["bP"] = "red"
    /\ \A name \in PIECES \ { "wK", "bP" } : loader.pieces[name] = "image"

\* The image name of a piece: the side's letter, then the kind's.
GlyphName(p) ==
    (IF p[2] = WHITE THEN "w" ELSE "b") \o <<"P", "N", "B", "R", "Q", "K">>[p[1]]
GlyphsOf(c) == { GlyphName(<<t, c>>) : t \in 1 .. 6 }

\* C15. Render and click mappings agree: a drawn frame shows at cell
\* (col, row) the piece of square (col, 7 - row) and nothing on an empty one;
\* a click in a cell addresses the piece drawn there: a first click selects
\* the cell exactly when a piece of the side to move is drawn on it, and a
\* pushed plain move leaves the piece drawn on the origin cell drawn on
\* the clicked cell; the highlight is on the selected cell, and there is none
\* when nothing is selected.
C15_RenderClickAgree ==
    pc = "loop" /\ screen # NoFrame =>
        /\ \A cell \in Cells :
              LET p == game_board.pieces[SquareUnder(cell)] IN
              screen.blits[cell] = IF p = None THEN "" ELSE GlyphName(p)
        /\ screen.highlight = selected_square_coords
        /\ Selected <=> screen.highlight \in Cells
        /\ \A ev \in GridClicks :
              LET after == After(ev)
                  cell == ClickCell(ev)
                  own == screen.blits[cell] \in GlyphsOf(game_board.turn)
              IN
              /\ ~Selected => after.selected = IF own THEN cell ELSE None
              /\ Selected /\ after.pushed /\ ~own /\ after.promotion = NoPromotion =>
                    /\ draw_board(after.board)[cell] = screen.blits[selected_square_coords]
                    /\ draw_board(after.board)[selected_square_coords] = ""

\* C15 witness: the white pawn drawn on cell (4, 6) was clicked; the frame
\* drawn next has the highlight on that cell, and the pawn is the one on e2.
C15_Witness ==
    /\ pc = "loop"
    /\ last.kind = "first_click"
    /\ screen.highlight = <<4, 6>>
    /\ screen.blits[<<4, 6>>] = "wP"
    /\ game_board.pieces[square(4, 1)] = Piece(PAWN, WHITE)
    /\ selected_square_coords = <<4, 6>>

\* C16. Selection validity is maintained: after every step a selected cell
\* lies on the grid and its square holds a piece of the side to move; a step
\* that changes the board leaves nothing selected; so the pawn test of a
\* second click always finds a piece on the origin.
C16_SelectionValidity ==
    [][ /\ selected_square_coords' # None =>
              /\ selected_square_coords' \in (0 .. 7) \X (0 .. 7)
              /\ LET p == game_board'.pieces[SquareUnder(selected_square_coords')] IN
                 p # None /\ p[2] = game_board'.turn
        /\ game_board' # game_board => selected_square_coords' = None
        /\ selected_square_coords # None /\ selected_square_coords' # None =>
              selected_square_coords' = selected_square_coords /\ game_board' = game_board
        /\ last'.raised # "AttributeError"
      ]_vars

\* C16 witness: after a pushed move a black piece was selected, and the
\* selection was held over a drawn frame into the next batch.
C16_Witness ==
    /\ Selected
    /\ plies = 1
    /\ game_board.turn = BLACK
    /\ game_board.pieces[SquareUnder(selected_square_coords)] \in { Piece(t, BLACK) : t \in 1 .. 6 }
    /\ screen.highlight = selected_square_coords
    /\ pc = "events"
    /\ pending > 0

\* The side to move has no legal move: checkmate or stalemate.
GameOver(b) == is_checkmate(b) \/ is_stalemate(b)

\* C17. Terminal positions are absorbing: on a checkmate or stalemate
\* position no event changes the board or the side to move and every
\* candidate built is discarded, while a first click on a piece of the side
\* to move still selects it and a second click still clears the selection.
C17_TerminalAbsorbing ==
    AboutToHandle /\ GameOver(game_board) =>
        \A ev \in Events :
            LET after == After(ev)
                cell == ClickCell(ev)
                p == game_board.pieces[SquareUnder(cell)]
            IN
            /\ after.board = game_board
            /\ after.board.turn = game_board.turn
            /\ ~after.pushed
            /\ IsLeftClick(ev) /\ OnGrid(cell) /\ ~Selected =>
                  after.selected = IF p # None /\ p[2] = game_board.turn THEN cell ELSE None
            /\ IsLeftClick(ev) /\ OnGrid(cell) /\ Selected => after.selected = None

\* C17 witness: on a mate position a piece of the mated side was selected and
\* a candidate for it tested and discarded; the position is the mate still.
C17_Witness ==
    /\ is_checkmate(game_board)
    /\ plies = 1
    /\ last.kind = "second_click"
    /\ last.tested
    /\ ~last.pushed
    /\ selected_square_coords = None

\* C18. Only left clicks act: a mouse-button-down event of another button,
\* on the grid or off it, with a cell selected or none, leaves the selection
\* and the board as they are, builds no candidate, and takes neither the
\* first-click nor the second-click branch.
C18_OnlyLeftClicksAct ==
    AboutToHandle =>
        \A ev \in Events :
            ev.type = "MOUSEBUTTONDOWN" /\ ev.button # 1 =>
                LET after == After(ev) IN
                /\ after.selected = selected_square_coords
                /\ after.board = game_board
                /\ after.kind \notin { "first_click", "second_click", "out_of_bounds" }
                /\ ~after.tested /\ ~after.caught /\ ~after.pushed
                /\ after.raised = ""

\* C18 witness: a right click was handled while a cell was selected; the
\* cell is still selected and no move has been made.
C18_Witness ==
    /\ last.kind = "other_button"
    /\ Selected
    /\ plies = 0
    /\ pc = "events"

====
